---- MODULE Spec2Model ----
(***************************************************************************)
(* Model of streamlit_app.py: the Video-to-Work-Instructions page.         *)
(*                                                                         *)
(* Text is modelled as sequences of tokens.  A token is either a single    *)
(* character the code's patterns look at (a digit, ".", ":", " ", "|",     *)
(* "[", "]") or an opaque word (any run of other characters).  A line is a *)
(* sequence of tokens, a draft is a sequence of lines (the value of        *)
(* str.splitlines()).  The regular expressions and string methods of the   *)
(* script are operators over these sequences.                              *)
(***************************************************************************)
EXTENDS Integers, Sequences, FiniteSets, TLC

\* Longest draft, in lines, the generation service returns in the model.
MaxLines == 3

----------------------------------------------------------------------------
\* Characters and string methods

Digits == {"0", "1", "2", "3", "4", "5", "6", "7", "8", "9"}

IsDigit(t) == t \in Digits

\* \s
IsSpace(t) == t = " "

Drop(s, n) == IF n >= Len(s) THEN <<>> ELSE SubSeq(s, n + 1, Len(s))

Take(s, n) == IF n <= 0 THEN <<>> ELSE SubSeq(s, 1, IF n > Len(s) THEN Len(s) ELSE n)

\* index of the first token at or after i that is no whitespace, Len(s) + 1 if none
RECURSIVE FirstNonSpace(_, _)
FirstNonSpace(s, i) ==
    IF i <= Len(s) /\ IsSpace(s[i]) THEN FirstNonSpace(s, i + 1) ELSE i

\* index of the last token at or before i that is no whitespace, 0 if none
RECURSIVE LastNonSpace(_, _)
LastNonSpace(s, i) ==
    IF i >= 1 /\ IsSpace(s[i]) THEN LastNonSpace(s, i - 1) ELSE i

\* str.lstrip()
LStrip(s) == Drop(s, FirstNonSpace(s, 1) - 1)

\* str.strip()
Strip(s) ==
    LET a == FirstNonSpace(s, 1)
        b == LastNonSpace(s, Len(s))
    IN  IF a > b THEN <<>> ELSE SubSeq(s, a, b)

\* str.startswith(prefix)
StartsWith(s, prefix) ==
    Len(s) >= Len(prefix) /\ \A k \in 1..Len(prefix) : s[k] = prefix[k]

\* str.split(sep) for a one-character separator: the pieces of s from index
\* start on, i scanning for the next separator
RECURSIVE SplitFrom(_, _, _, _)
SplitFrom(s, sep, start, i) ==
    IF i > Len(s) THEN << Drop(s, start - 1) >>
    ELSE IF s[i] = sep
         THEN << (IF start = i THEN <<>> ELSE SubSeq(s, start, i - 1)) >>
              \o SplitFrom(s, sep, i + 1, i + 1)
    ELSE SplitFrom(s, sep, start, i + 1)

Split(s, sep) == SplitFrom(s, sep, 1, 1)

\* str.replace(old, new) for one-character old and new
Replace(s, old, new) == [k \in 1..Len(s) |-> IF s[k] = old THEN new ELSE s[k]]

\* "\n".join(lines).splitlines(): a final empty line does not survive
Rejoin(lines) ==
    IF lines # <<>> /\ lines[Len(lines)] = <<>> THEN Take(lines, Len(lines) - 1) ELSE lines

----------------------------------------------------------------------------
\* Regular expressions of the script

\* ^\d\.\d
MatchSectionNumber(line) ==
    Len(line) >= 3 /\ IsDigit(line[1]) /\ line[2] = "." /\ IsDigit(line[3])

\* ^(\d\.\d)\s+(.*)
MatchSectionHeader(line) ==
    MatchSectionNumber(line) /\ Len(line) >= 4 /\ IsSpace(line[4])

\* m.group(1)
SectionNumber(line) == Take(line, 3)

\* ^1\.0\s+Purpose
MatchPurpose(line) ==
    /\ StartsWith(line, <<"1", ".", "0">>)
    /\ Len(line) >= 4 /\ IsSpace(line[4])
    /\ StartsWith(LStrip(Drop(line, 3)), <<"Purpose">>)

\* ^6\.0\s+Procedure
MatchProcedure(line) ==
    /\ StartsWith(line, <<"6", ".", "0">>)
    /\ Len(line) >= 4 /\ IsSpace(line[4])
    /\ StartsWith(LStrip(Drop(line, 3)), <<"Procedure">>)

\* \[(\d{2}:\d{2})\] at position p of s
MarkerAt(s, p) ==
    /\ p + 6 <= Len(s)
    /\ s[p] = "["
    /\ IsDigit(s[p + 1]) /\ IsDigit(s[p + 2])
    /\ s[p + 3] = ":"
    /\ IsDigit(s[p + 4]) /\ IsDigit(s[p + 5])
    /\ s[p + 6] = "]"

\* re.search(r"\[(\d{2}:\d{2})\]", s) is not None
HasMarker(s) == \E p \in 1..Len(s) : MarkerAt(s, p)

\* re.search(r"\[(\d{2}:\d{2})\]", s).group(1): the leftmost match
MarkerOf(s) ==
    LET p == CHOOSE q \in 1..Len(s) : MarkerAt(s, q) /\ \A h \in 1..(q - 1) : ~MarkerAt(s, h)
    IN  SubSeq(s, p + 1, p + 5)

----------------------------------------------------------------------------
\* Lines the generation service can return

Cell0005 == <<"[", "0", "0", ":", "0", "5", "]">>

Cell0012 == <<"[", "0", "0", ":", "1", "2", "]">>

\* a bracket the marker pattern rejects: one digit on each side
CellMalformed == <<"[", "0", ":", "5", "]">>

CellFrame == <<"[", "frame", "]">>

RECURSIVE JoinCells(_)
JoinCells(cells) ==
    IF cells = <<>> THEN <<>>
    ELSE <<" ">> \o Head(cells) \o <<" ", "|">> \o JoinCells(Tail(cells))

\* "| c1 | c2 | ... | cn |"
Row(cells) == <<"|">> \o JoinCells(cells)

LinePurpose == <<"1", ".", "0", " ", "Purpose">>

LineProcedure == <<"6", ".", "0", " ", "Procedure">>

LineReference == <<"7", ".", "0", " ", "Reference Documents">>

LineText == <<"Wear gloves">>

LineBlank == <<>>

\* the row shape the comment at line 147 names: the STEP column holds a number
RowNumbered == Row(<< <<"1">>, Cell0005, <<"Fold box">>, CellFrame, <<"Sharp blade">> >>)

RowA == Row(<< <<"[", "1", "]">>, Cell0005, <<"Fold box">>, CellFrame, <<"Sharp blade">> >>)

\* the marker of RowA again, with other text
RowADup == Row(<< <<"[", "2", "]">>, Cell0005, <<"Seal box">>, CellFrame, <<"Pinch point">> >>)

RowB == Row(<< <<"[", "2", "]">>, Cell0012, <<"Seal box">>, CellFrame, <<"Pinch point">> >>)

RowMalformed == Row(<< <<"[", "3", "]">>, CellMalformed, <<"Tape box">>, CellFrame, <<"None">> >>)

\* a row with fewer columns than the parser indexes
RowShort == Row(<< <<"[", "4", "]">>, Cell0012, <<"Stack box">> >>)

Lines ==
    { LinePurpose, LineProcedure, LineReference, LineText, LineBlank,
      RowNumbered, RowA, RowADup, RowB, RowMalformed, RowShort }

SeqsUpTo(S, n) == UNION { [1..k -> S] : k \in 0..n }

\* resp.text.splitlines() for the first draft of a session: every sequence of
\* at most MaxLines of the lines above
Drafts == SeqsUpTo(Lines, MaxLines)

\* resp.text.splitlines() when Generate is pressed again in a session that
\* already holds a summary: a draft with two steps, one with a row the parser
\* raises on, one without table rows, and one with a repeated marker
Redrafts ==
    { <<LineProcedure, RowA, RowB>>,
      <<LineProcedure, RowMalformed>>,
      <<LinePurpose, LineProcedure, LineReference>>,
      <<LineProcedure, RowA, RowADup>> }

----------------------------------------------------------------------------
\* Generate: strip boilerplate, parse the 6.0 Procedure rows, extract frames

\* lines 125-131: drop everything before the first "1.0 Purpose" line
Cleaned(lines) ==
    IF \E k \in 1..Len(lines) : MatchPurpose(lines[k])
    THEN LET idx == CHOOSE k \in 1..Len(lines) :
                        MatchPurpose(lines[k]) /\ \A h \in 1..(k - 1) : ~MatchPurpose(lines[h])
         IN  Rejoin(Drop(lines, idx - 1))
    ELSE lines

\* line 145: line.strip().startswith("| [")
IsStepRow(line) == StartsWith(Strip(line), <<"|", " ", "[">>)

\* line 146: [c.strip() for c in line.split("|")[1:-1]]
Cols(line) ==
    LET parts == Split(line, "|")
    IN  [k \in 1..(IF Len(parts) >= 2 THEN Len(parts) - 2 ELSE 0) |-> Strip(parts[k + 1])]

\* lines 146-151: the outcome of one row: a step, or the exception raised
ParseRow(line) ==
    LET cols == Cols(line)
    IN  IF Len(cols) < 2 THEN [error |-> "IndexError", step |-> <<>>]
        ELSE IF ~HasMarker(cols[2]) THEN [error |-> "AttributeError", step |-> <<>>]
        ELSE IF Len(cols) < 5 THEN [error |-> "IndexError", step |-> <<>>]
        ELSE [error |-> "", step |-> <<MarkerOf(cols[2]), cols[3], cols[5]>>]

\* lines 139-154: the loop over cleaned.splitlines()
RECURSIVE ParseLoop(_, _, _, _)
ParseLoop(lines, i, in_proc, acc) ==
    IF i > Len(lines) THEN [error |-> "", steps |-> acc]
    ELSE LET line == lines[i]
         IN  IF MatchProcedure(line) THEN ParseLoop(lines, i + 1, TRUE, acc)
             ELSE IF in_proc /\ IsStepRow(line)
                  THEN LET r == ParseRow(line)
                       IN  IF r.error # "" THEN [error |-> r.error, steps |-> acc]
                           ELSE ParseLoop(lines, i + 1, in_proc, Append(acc, r.step))
             ELSE IF in_proc /\ Strip(line) = <<>> THEN [error |-> "", steps |-> acc]
             ELSE ParseLoop(lines, i + 1, in_proc, acc)

Parse(lines) == ParseLoop(lines, 1, FALSE, <<>>)

StepTimes(ss) == { ss[k][1] : k \in 1..Len(ss) }

\* lines 121-154: a response of the service with the cleaned draft and the
\* parse of it
Response(raw) ==
    LET cleaned == Cleaned(raw) IN [raw |-> raw, cleaned |-> cleaned, parsed |-> Parse(cleaned)]

Responses == { Response(raw) : raw \in Drafts }

Reresponses == { Response(raw) : raw \in Redrafts }

\* line 159: frame_{ts.replace(':','_')}.png in the run's temporary directory
FramePath(ts) == <<"frame_">> \o Replace(ts, ":", "_") \o <<".png">>

\* lines 157-165: one frame entry per step whose image file exists
RECURSIVE ExtractFrames(_, _)
ExtractFrames(ss, written) ==
    IF ss = <<>> THEN <<>>
    ELSE LET ts == Head(ss)[1]
             img == FramePath(ts)
         IN  (IF img \in written THEN << [time |-> ts, path |-> img] >> ELSE <<>>)
             \o ExtractFrames(Tail(ss), written)

----------------------------------------------------------------------------
\* Image review

\* lines 173-176: f"Step {i+1} - [{ts}] {act}" for every step
Labels(ss) == [k \in 1..Len(ss) |-> <<k, ss[k][1], ss[k][2]>>]

\* list.index(x), 0-based: the first position holding x
IndexOf(list, x) ==
    (CHOOSE k \in 1..Len(list) : list[k] = x /\ \A h \in 1..(k - 1) : list[h] # x) - 1

\* lines 171-189: where one run of the review section ends.
\*   "start"         no summary in the session, nothing is shown
\*   "error_review"  session_state.frames does not exist (line 172 raises)
\*   "error_preview" the selectbox is shown, lines 178-180 raise
\*   "review"        preview, Delete and Download are shown
\*   "no_steps"      the st.info message and Download are shown
Review(ks, ss, ff, cur) ==
    IF "summary" \notin ks THEN "start"
    ELSE IF "frames" \notin ks THEN "error_review"
    ELSE IF ff = <<>> THEN "no_steps"
    ELSE LET labels == Labels(ss)
         IN  IF labels = <<>> THEN "error_preview"
             ELSE LET idx == IndexOf(labels, labels[cur + 1])
                  IN  IF idx + 1 > Len(ff) THEN "error_preview" ELSE "review"

\* list.pop(idx), 0-based
Pop(list, idx) == Take(list, idx) \o Drop(list, idx + 1)

----------------------------------------------------------------------------
\* DOCX export.  A document is the sequence of python-docx calls made:
\*   <<"heading", text>>          doc.add_heading(text, level=1)
\*   <<"paragraph", text>>        doc.add_paragraph(text)
\*   <<"step", n, ts, act>>       Heading 2 paragraph "Step n - [ts] act"
\*   <<"bullet", haz>>            List Bullet paragraph "Hazard: haz"
\*   <<"picture", path>>          doc.add_picture(path, width=Inches(3))
\*   <<"spacer">>                 doc.add_paragraph()

NoPath == <<>>

\* line 223: next((f["path"] for f in frames if f["time"] == ts), None)
FindFrame(ff, ts) ==
    IF \E k \in 1..Len(ff) : ff[k].time = ts
    THEN ff[CHOOSE k \in 1..Len(ff) : ff[k].time = ts /\ \A h \in 1..(k - 1) : ff[h].time # ts].path
    ELSE NoPath

\* lines 220-226 without the "if img" test of line 224
StepGroupUnguarded(n, step, ff) ==
    LET img == FindFrame(ff, step[1])
    IN  << <<"step", n, step[1], step[2]>>, <<"bullet", step[3]>>,
           <<"picture", img>>, <<"spacer">> >>

\* lines 220-226: what one step contributes
StepGroup(n, step, ff) ==
    LET img == FindFrame(ff, step[1])
    IN  << <<"step", n, step[1], step[2]>>, <<"bullet", step[3]>> >>
        \o (IF img # NoPath THEN << <<"picture", img>>, <<"spacer">> >> ELSE <<>>)

\* line 219: for idx, (ts, act, haz) in enumerate(steps, start=1)
RECURSIVE StepGroups(_, _, _)
StepGroups(ss, n, ff) ==
    IF n > Len(ss) THEN <<>>
    ELSE StepGroup(n, ss[n], ff) \o StepGroups(ss, n + 1, ff)

\* lines 206-209: the body of a section starting at line i: its paragraphs
\* and the index of the line that ends it
RECURSIVE SectionBody(_, _, _)
SectionBody(lines, i, acc) ==
    IF i <= Len(lines) /\ ~MatchSectionNumber(lines[i])
    THEN SectionBody(lines, i + 1,
                     IF Strip(lines[i]) # <<>> THEN Append(acc, <<"paragraph", lines[i]>>) ELSE acc)
    ELSE [next |-> i, items |-> acc]

\* lines 199-228: the while loop.  In the 6.0 branch the two skips of lines
\* 214-217 move i only, and the break at line 227 leaves the loop.
RECURSIVE ExportLoop(_, _, _, _)
ExportLoop(lines, i, ss, ff) ==
    IF i > Len(lines) THEN <<>>
    ELSE IF MatchSectionHeader(lines[i]) /\ SectionNumber(lines[i]) # <<"6", ".", "0">>
         THEN LET body == SectionBody(lines, i + 1, <<>>)
              IN  << <<"heading", lines[i]>> >> \o body.items
                  \o ExportLoop(lines, body.next, ss, ff)
    ELSE IF MatchSectionHeader(lines[i]) /\ SectionNumber(lines[i]) = <<"6", ".", "0">>
         THEN << <<"heading", <<"6", ".", "0", " ", "Procedure">> >> >> \o StepGroups(ss, 1, ff)
    ELSE ExportLoop(lines, i + 1, ss, ff)

\* lines 230-232: Ensure 7.0 Reference Documents exists
EnsureReference(lines) ==
    IF ~\E k \in 1..Len(lines) : StartsWith(lines[k], <<"7", ".", "0">>)
    THEN << <<"heading", <<"7", ".", "0", " ", "Reference Documents">> >> >>
    ELSE <<>>

\* lines 195-232
Export(lines, ss, ff) == ExportLoop(lines, 1, ss, ff) \o EnsureReference(lines)

----------------------------------------------------------------------------
\* State

VARIABLES
    video,        \* a file is held by the uploader
    keys,         \* the keys present in st.session_state
    summary,      \* st.session_state.summary, as lines
    steps,        \* st.session_state.steps: <<ts, action, hazard>> triples
    frames,       \* st.session_state.frames: [time, path] entries
    written,      \* frame files written by the run that stored steps
    cursor,       \* index chosen in the selectbox, 0-based
    page,         \* where the last run of the script ended
    doc           \* the document built by the last run, <<>> when none was

vars == <<video, keys, summary, steps, frames, written, cursor, page, doc>>

Init ==
    /\ video = FALSE
    /\ keys = {}
    /\ summary = <<>>
    /\ steps = <<>>
    /\ frames = <<>>
    /\ written = {}
    /\ cursor = 0
    /\ page = "start"
    /\ doc = <<>>

\* line 98: the user puts a file into the uploader; the script reruns
Upload ==
    /\ video' = TRUE
    /\ page' = Review(keys, steps, frames, cursor)
    /\ doc' = <<>>
    /\ UNCHANGED <<keys, summary, steps, frames, written, cursor>>

\* lines 99-118: the storage upload or the model call raises
GenerateRemoteFails ==
    /\ video
    /\ page' = "error_remote"
    /\ doc' = <<>>
    /\ UNCHANGED <<video, keys, summary, steps, frames, written, cursor>>

\* lines 99-166 and the review section after them: the service returns
\* resp.raw, ffmpeg writes a file for the timestamps in ok.  When the parse
\* raises, the run ends with the summary stored and steps and frames as they
\* were.  A new option list puts the selectbox on its first entry.
Generate(resp, ok) ==
    /\ video
    /\ LET cleaned == resp.cleaned
           parsed == resp.parsed
       IN  /\ summary' = cleaned
           /\ IF parsed.error # ""
              THEN /\ keys' = keys \cup {"raw", "summary"}
                   /\ page' = "error_parse"
                   /\ UNCHANGED <<steps, frames, written, cursor>>
              ELSE /\ keys' = keys \cup {"raw", "summary", "steps", "frames"}
                   /\ steps' = parsed.steps
                   /\ written' = { FramePath(ts) : ts \in ok \cap StepTimes(parsed.steps) }
                   /\ frames' = ExtractFrames(parsed.steps, written')
                   /\ cursor' = 0
                   /\ page' = Review(keys', steps', frames', cursor')
    /\ doc' = <<>>
    /\ UNCHANGED video

\* line 177: the user picks another entry of the selectbox; the script reruns
Select(i) ==
    /\ page \in {"review", "error_preview"}
    /\ i \in 0..(Len(steps) - 1)
    /\ i # cursor
    /\ cursor' = i
    /\ page' = Review(keys, steps, frames, i)
    /\ doc' = <<>>
    /\ UNCHANGED <<video, keys, summary, steps, frames, written>>

\* lines 184-187: Delete this image, then the rerun
Delete ==
    /\ page = "review"
    /\ steps' = Pop(steps, cursor)
    /\ frames' = Pop(frames, cursor)
    /\ cursor' = 0
    /\ page' = Review(keys, steps', frames', 0)
    /\ doc' = <<>>
    /\ UNCHANGED <<video, keys, summary, written>>

\* lines 194-237: Download WI .docx
Download ==
    /\ page \in {"review", "no_steps"}
    /\ doc' = Export(summary, steps, frames)
    /\ UNCHANGED <<video, keys, summary, steps, frames, written, cursor, page>>

\* the responses the model draws for a press of Generate Draft WI, and for each
\* the timestamps ffmpeg writes a frame for
GenerateDraft ==
    \E resp \in (IF "summary" \in keys THEN Reresponses ELSE Responses) :
       \E ok \in SUBSET StepTimes(resp.parsed.steps) : Generate(resp, ok)

SelectStep == \E i \in 0..MaxLines : Select(i)

Next ==
    \/ Upload
    \/ GenerateRemoteFails
    \/ GenerateDraft
    \/ SelectStep
    \/ Delete
    \/ Download

Spec == Init /\ [][Next]_vars

----------------------------------------------------------------------------
\* What the properties below speak about

Distinct(seq) == \A a, b \in 1..Len(seq) : a # b => seq[a] # seq[b]

IsTableRow(line) == StartsWith(Strip(line), <<"|">>)

\* the timestamps of the rows of the 6.0 Procedure table, in draft order: the
\* table rows between the "6.0 Procedure" line and the next section header
\* whose TIMESTAMP column holds a well-formed marker
RECURSIVE TableMarkers(_, _, _)
TableMarkers(lines, i, inside) ==
    IF i > Len(lines) THEN <<>>
    ELSE IF MatchProcedure(lines[i]) THEN TableMarkers(lines, i + 1, TRUE)
    ELSE IF MatchSectionHeader(lines[i]) THEN TableMarkers(lines, i + 1, FALSE)
    ELSE IF inside /\ IsTableRow(lines[i]) /\ Len(Cols(lines[i])) >= 2
            /\ HasMarker(Cols(lines[i])[2])
         THEN <<MarkerOf(Cols(lines[i])[2])>> \o TableMarkers(lines, i + 1, inside)
    ELSE TableMarkers(lines, i + 1, inside)

TimesOf(ss) == [k \in 1..Len(ss) |-> ss[k][1]]

ProcedureHeading == <<"heading", <<"6", ".", "0", " ", "Procedure">> >>

ReferenceHeading == <<"heading", <<"7", ".", "0", " ", "Reference Documents">> >>

\* the headings and paragraphs the draft's sections other than 6.0 call for:
\* each header line as a heading, then its non-blank body lines as paragraphs
RECURSIVE SectionsOf(_, _, _)
SectionsOf(lines, i, inside) ==
    IF i > Len(lines) THEN <<>>
    ELSE IF MatchSectionHeader(lines[i]) /\ SectionNumber(lines[i]) # <<"6", ".", "0">>
         THEN << <<"heading", lines[i]>> >> \o SectionsOf(lines, i + 1, TRUE)
    ELSE IF MatchSectionHeader(lines[i]) THEN SectionsOf(lines, i + 1, FALSE)
    ELSE IF inside /\ Strip(lines[i]) # <<>>
         THEN << <<"paragraph", lines[i]>> >> \o SectionsOf(lines, i + 1, inside)
    ELSE SectionsOf(lines, i + 1, inside)

IsSectionItem(item) == item[1] \in {"heading", "paragraph"} /\ item # ProcedureHeading

IsGroupItem(item) == item[1] \in {"step", "bullet", "picture", "spacer"}

IsStepItem(item) == item[1] = "step"

IsBulletItem(item) == item[1] = "bullet"

IsTextItem(item) == item[1] \in {"heading", "paragraph"}

NotProcedureHeading(item) == item # ProcedureHeading

\* one heading+hazard+image group per step, the image being the one written
\* for the step's own timestamp when there is one
RECURSIVE GroupsOf(_, _, _)
GroupsOf(ss, n, files) ==
    IF n > Len(ss) THEN <<>>
    ELSE << <<"step", n, ss[n][1], ss[n][2]>>, <<"bullet", ss[n][3]>> >>
         \o (IF FramePath(ss[n][1]) \in files
             THEN << <<"picture", FramePath(ss[n][1])>>, <<"spacer">> >> ELSE <<>>)
         \o GroupsOf(ss, n + 1, files)

Exported == doc # <<>>

----------------------------------------------------------------------------
\* Properties

\* C1: when Generate stores the parse of a draft whose Procedure table holds
\* N distinct well-formed [MM:SS] markers, one per row, the step list holds
\* exactly these N timestamps, in the order of the rows.
C1_ParseStoresEveryMarker ==
    [][ (summary' # summary /\ page' # "error_parse" /\ Distinct(TableMarkers(summary', 1, FALSE)))
        => TimesOf(steps') = TableMarkers(summary', 1, FALSE) ]_vars

\* C2: in every exported document the section headers of the draft other than
\* 6.0, before and after the Procedure section, appear as headings, each
\* followed by its non-blank body lines as paragraphs, in draft order (the
\* export may add a 7.0 heading of its own at the end).
C2_SectionsCopiedThrough ==
    Exported =>
        LET copied == SelectSeq(doc, IsSectionItem)
            wanted == SectionsOf(summary, 1, FALSE)
        IN  copied = wanted \/ copied = wanted \o <<ReferenceHeading>>

\* C3: a Delete step takes a step list of size n to one of size n-1, and
\* afterwards either the list is empty or an index between 0 and n-2 is
\* selected on the review page.
C3_DeleteShrinksAndClamps ==
    [][ Delete =>
           /\ Len(steps') = Len(steps) - 1
           /\ \/ steps' = <<>>
              \/ page' = "review" /\ 0 <= cursor' /\ cursor' <= Len(steps) - 2 ]_vars

\* C4: the Procedure part of every exported document is one group per step of
\* the current step list, in list order, numbered from 1, each with the image
\* written for its own timestamp when such an image exists.
C4_GroupPerSurvivingStep ==
    Exported => SelectSeq(doc, IsGroupItem) = GroupsOf(steps, 1, written)

\* C5: no two steps of the step list carry the same timestamp.
C5_TimestampsUnique ==
    "steps" \in keys => Distinct(TimesOf(steps))

\* C6: the parse never raises: no run of the script ends in the parse of the
\* Procedure rows, and a session that holds a summary holds a step list.
C6_ParsingNeverErrors ==
    /\ page # "error_parse"
    /\ "summary" \in keys => "steps" \in keys

\* C7: in every exported document no picture is inserted from a missing
\* path, a step without a recorded frame is heading and hazard text only, and
\* every step and every section the export writes is there whatever frames
\* are recorded.
C7_MissingImageIsTextOnly ==
    Exported =>
        /\ \A k \in 1..Len(doc) : doc[k][1] = "picture" => doc[k][2] # NoPath
        /\ \A n \in 1..Len(steps) :
              FindFrame(frames, steps[n][1]) = NoPath =>
                 \E k \in 1..Len(doc) :
                    /\ doc[k] = <<"step", n, steps[n][1], steps[n][2]>>
                    /\ k + 1 <= Len(doc) /\ doc[k + 1] = <<"bullet", steps[n][3]>>
                    /\ k + 2 <= Len(doc) => doc[k + 2][1] \notin {"picture", "spacer"}
        /\ SelectSeq(doc, IsStepItem)
              = [n \in 1..Len(steps) |-> <<"step", n, steps[n][1], steps[n][2]>>]
        /\ SelectSeq(doc, IsBulletItem) = [n \in 1..Len(steps) |-> <<"bullet", steps[n][3]>>]
        /\ SelectSeq(doc, IsTextItem) = SelectSeq(Export(summary, <<>>, <<>>), IsTextItem)

\* C7 witness: an exported document with a step that has no recorded frame
\* next to a step that has its picture.
C7_Witness ==
    /\ Exported
    /\ \E n \in 1..Len(steps) : FindFrame(frames, steps[n][1]) = NoPath
    /\ \E k \in 1..Len(doc) : doc[k][1] = "picture"

\* C8: a document exported while the step list is empty holds no step group
\* and no picture, and beside the Procedure heading exactly the sections of
\* the draft other than 6.0, all of them (and the 7.0 heading the export adds).
C8_ZeroStepsRoundTrip ==
    (Exported /\ steps = <<>>) =>
        /\ SelectSeq(doc, IsGroupItem) = <<>>
        /\ LET rest == SelectSeq(doc, NotProcedureHeading)
               wanted == SectionsOf(summary, 1, FALSE)
           IN  rest = wanted \/ rest = wanted \o <<ReferenceHeading>>

\* C9: the step list and the frame list have the same length, and the frame
\* at each index was extracted at the timestamp of the step at that index.
C9_FramesAlignedWithSteps ==
    "frames" \in keys =>
        /\ Len(frames) = Len(steps)
        /\ \A k \in 1..Len(frames) : frames[k].time = steps[k][1]

\* C10: every exported document holds a level-1 heading beginning with 7.0.
C10_ReferenceHeadingPresent ==
    Exported =>
        \E k \in 1..Len(doc) : doc[k][1] = "heading" /\ StartsWith(doc[k][2], <<"7", ".", "0">>)

====
